---- MODULE Spec2Model ----
(***************************************************************************)
(* Smart Home Controller (Smart_Home_Controller.py): the device registry,  *)
(* the capped action log with its table, the power estimate, and the view  *)
(* router, as the state machine driven by the UI event handlers.           *)
(***************************************************************************)
EXTENDS Integers, Sequences, FiniteSets, TLC

\* ---------------------------------------------------------------- bounds
\* logged handler runs explored in one behaviour
MaxOps == 2
\* handler runs replayed before the first state of SpecWarm
Prefill == 49

\* ------------------------------------------------------ program constants
MaxLogRows == 50
RecentLimit == 10
LightWatts == 10
ThermoBaseWatts == 80
ThermoBase == 20
WattsPerDegree == 5
FanWattsPerStep == 30
ThermoMin == 10
ThermoMax == 30
FanMin == 0
FanMax == 3
InitialSetpoint == 22
InitialFanSpeed == 0

VARIABLES
    devices,         \* dict id -> Device
    action_log,      \* list of entries, insertion order
    log_table_rows,  \* log_table.rows
    power_text,      \* power_text.value
    views,           \* page.views
    route,           \* page.route, as tokens: "/" or a name without "/"
    clock,           \* last wall-clock reading
    raised,          \* exception raised by the last handler, "" if none
    appended,        \* history: every entry ever appended, in order
    nops,            \* history: number of logged handler runs
    last_event       \* history: the handler that ran last and its input

vars == <<devices, action_log, log_table_rows, power_text, views, route,
          clock, raised, appended, nops, last_event>>

\* ------------------------------------------------------------ Python values
\* Optional: None is the empty tuple, a value v is <<v>>.
None == <<>>
Some(v) == <<v>>

\* A Python number: its (integral) value and whether it is a float.
PyInt(n) == [v |-> n, float |-> FALSE]
PyFloat(n) == [v |-> n, float |-> TRUE]
PyAdd(a, b) == [v |-> a.v + b.v, float |-> a.float \/ b.float]
PySub(a, b) == [v |-> a.v - b.v, float |-> a.float \/ b.float]
PyMul(a, b) == [v |-> a.v * b.v, float |-> a.float \/ b.float]
\* max(0, x): the first maximal argument, so the int 0 unless x > 0
PyMax0(x) == IF x.v > 0 THEN x ELSE PyInt(0)
\* f"{x}"
FormatNumber(x) == IF x.float THEN ToString(x.v) \o ".0" ELSE ToString(x.v)
\* f"{x:.1f}" of an integral value
FormatOneDecimal(x) == ToString(x.v) \o ".0"
\* f"{int(x)}"
FormatInt(x) == ToString(x.v)

Pad2(n) == IF n < 10 THEN "0" \o ToString(n) ELSE ToString(n)
\* time.strftime("%H:%M:%S") at c seconds after midnight
strftime(c) ==
    Pad2((c \div 3600) % 24) \o ":" \o Pad2((c \div 60) % 60) \o ":" \o Pad2(c % 60)

Reverse(s) == [i \in 1..Len(s) |-> s[Len(s) + 1 - i]]

\* ------------------------------------------------------------------ devices
Device(id, name, type_, is_on, slider_value) ==
    [id |-> id, name |-> name, type |-> type_, is_on |-> is_on,
     slider_value |-> slider_value]

light0 == Device("light1", "Living Room Light", "light", FALSE, None)
door0 == Device("door1", "Front Door", "door", TRUE, None)
thermostat0 == Device("thermo1", "Thermostat", "thermostat", FALSE,
                      Some(PyInt(InitialSetpoint)))
fan0 == Device("fan1", "Ceiling Fan", "fan", FALSE, Some(PyInt(InitialFanSpeed)))

DeviceIds == {"light1", "door1", "thermo1", "fan1"}

SeedDevices ==
    [i \in DeviceIds |->
        CASE i = "light1" -> light0
          [] i = "door1" -> door0
          [] i = "thermo1" -> thermostat0
          [] OTHER -> fan0]

\* current_power_watts without the max(0, ...) clamp
current_power_watts_unclamped(devs) ==
    PyAdd(PyAdd(IF devs["light1"].is_on THEN PyInt(LightWatts) ELSE PyInt(0),
                PyAdd(PyInt(ThermoBaseWatts),
                      PyMul(PySub(devs["thermo1"].slider_value[1], PyInt(ThermoBase)),
                            PyInt(WattsPerDegree)))),
          PyMul(devs["fan1"].slider_value[1], PyInt(FanWattsPerStep)))

\* ---------------------------------------------------------- power estimate
current_power_watts(devs) ==
    LET light == devs["light1"]
        thermostat == devs["thermo1"]
        fan == devs["fan1"]
        p0 == PyInt(0)
        p1 == IF light.is_on THEN PyAdd(p0, PyInt(LightWatts)) ELSE p0
        p2 == IF thermostat.slider_value # None
              THEN PyAdd(p1, PyAdd(PyInt(ThermoBaseWatts),
                       PyMul(PyMax0(PySub(thermostat.slider_value[1], PyInt(ThermoBase))),
                             PyInt(WattsPerDegree))))
              ELSE p1
        p3 == IF fan.slider_value # None
              THEN PyAdd(p2, PyMul(fan.slider_value[1], PyInt(FanWattsPerStep)))
              ELSE p2
    IN p3

\* the value update_power_text stores
power_text_value(devs) ==
    "Current simulated power: " \o FormatNumber(current_power_watts(devs)) \o " W"

\* --------------------------------------------------------------- action log
Entry(t, device_id, action, user) ==
    [time |-> t, device |-> device_id, action |-> action, user |-> user]

\* keep_last_rows deleting from the wrong end: del action_log[50:]
keep_last_rows_oldest(log) ==
    IF Len(log) > MaxLogRows THEN SubSeq(log, 1, MaxLogRows) ELSE log

\* keep last 50 rows only: del action_log[0 : len(action_log) - 50]
keep_last_rows(log) ==
    IF Len(log) > MaxLogRows
    THEN SubSeq(log, Len(log) - MaxLogRows + 1, Len(log))
    ELSE log

DataRow(entry) == <<entry.time, entry.device, entry.action, entry.user>>

\* table_rows iterating action_log instead of reversed(action_log)
table_rows_unreversed(log) == [i \in 1..Len(log) |-> DataRow(log[i])]

\* rows.clear(); one DataRow per entry of reversed(action_log)
table_rows(log) ==
    LET r == Reverse(log) IN [i \in 1..Len(r) |-> DataRow(r[i])]

\* ------------------------------------------------- handler state updates
\* light.is_on = not light.is_on
light_toggled(devs) == [devs EXCEPT !["light1"].is_on = ~@]
\* door.is_on = not door.is_on
door_toggled(devs) == [devs EXCEPT !["door1"].is_on = ~@]
\* thermo_set also switching the unused on/off flag
thermo_set_and_on(devs, value) ==
    [devs EXCEPT !["thermo1"].slider_value = Some(PyFloat(value)),
                 !["thermo1"].is_on = TRUE]
\* thermostat.slider_value = e.control.value (the slider's float)
thermo_set(devs, value) == [devs EXCEPT !["thermo1"].slider_value = Some(PyFloat(value))]
\* fan.slider_value = int(e.control.value)
fan_set(devs, value) == [devs EXCEPT !["fan1"].slider_value = Some(PyInt(value))]

\* the unit glyph of the source is written "deg" here
DegreeUnit == " degC"

\* light_action describing the state before the toggle
light_action_stale(devs) == IF devs["light1"].is_on THEN "Turn OFF" ELSE "Turn ON"
light_action(devs) == IF devs["light1"].is_on THEN "Turn ON" ELSE "Turn OFF"
door_action(devs) == IF devs["door1"].is_on THEN "Lock" ELSE "Unlock"
thermo_action(devs) ==
    "Set to " \o FormatOneDecimal(devs["thermo1"].slider_value[1]) \o DegreeUnit
fan_action(devs) == "Set speed to " \o FormatInt(devs["fan1"].slider_value[1])

\* the wall-clock readings (seconds after 00:00:00) a behaviour can observe
Seconds == {0, 1}

\* the positions the two sliders can report
ThermoInputs == {ThermoMin, ThermoBase, ThermoMax}
FanInputs == FanMin..FanMax

\* ------------------------------------------------------------------- views
light_status_text(devs) == "Status: " \o (IF devs["light1"].is_on THEN "ON" ELSE "OFF")
light_button_text(devs) == IF devs["light1"].is_on THEN "Turn OFF" ELSE "Turn ON"
door_status_text(devs) == "Door: " \o (IF devs["door1"].is_on THEN "LOCKED" ELSE "UNLOCKED")
door_button_text(devs) == IF devs["door1"].is_on THEN "Unlock" ELSE "Lock"
thermo_value_text(devs) ==
    "Set point: " \o FormatOneDecimal(devs["thermo1"].slider_value[1]) \o DegreeUnit
fan_value_text(devs) == "Fan speed: " \o FormatInt(devs["fan1"].slider_value[1])

\* A view: its kind, the device it details ("" if none) and the texts of
\* its state-dependent controls.
View(kind, device_id, texts) == [kind |-> kind, device_id |-> device_id, texts |-> texts]

build_overview_view(devs) ==
    View("Overview", "",
         <<light_status_text(devs), light_button_text(devs),
           door_status_text(devs), door_button_text(devs),
           thermo_value_text(devs), fan_value_text(devs)>>)

\* builds the view; its call of update_power_text is part of route_change
build_statistics_view == View("Statistics", "", <<>>)

state_str(device) ==
    CASE device.type = "light" -> IF device.is_on THEN "ON" ELSE "OFF"
      [] device.type = "door" -> IF device.is_on THEN "LOCKED" ELSE "UNLOCKED"
      [] device.type = "thermostat" -> FormatOneDecimal(device.slider_value[1]) \o DegreeUnit
      [] device.type = "fan" -> FormatInt(device.slider_value[1])
      [] OTHER -> "-"

\* recent without the [0:10] slice
recent_unsliced(device_id, log) ==
    SelectSeq(Reverse(log), LAMBDA a : a.device = device_id)

\* [a for a in reversed(action_log) if a["device"] == device.id][0:10]
recent(device_id, log) ==
    LET mine == SelectSeq(Reverse(log), LAMBDA a : a.device = device_id)
    IN SubSeq(mine, 1, IF Len(mine) < RecentLimit THEN Len(mine) ELSE RecentLimit)

recent_controls(device_id, log) ==
    LET r == recent(device_id, log)
    IN IF r = <<>>
       THEN <<"No actions yet.">>
       ELSE [i \in 1..Len(r) |->
                r[i].time \o " - " \o r[i].action \o " (" \o r[i].user \o ")"]

build_device_details_view(device_id, devs, log) ==
    LET device == devs[device_id]
    IN View("DeviceDetail", device.id,
            <<state_str(device)>> \o recent_controls(device.id, log))

\* --------------------------------------------------------------- routing
\* page.route.split("/")[-1]
last_segment(r) ==
    IF r = <<>> THEN "" ELSE IF r[Len(r)] = "/" THEN "" ELSE r[Len(r)]

\* page.route.startswith("/device/")
starts_with_device(r) == Len(r) >= 3 /\ SubSeq(r, 1, 3) = <<"/", "device", "/">>

\* views_for_route without the fallback for an unknown device id
views_for_route_no_fallback(r, devs, log) ==
    IF r = <<"/">> THEN <<build_overview_view(devs)>>
    ELSE IF r = <<"/", "statistics">> THEN <<build_statistics_view>>
    ELSE IF starts_with_device(r) /\ last_segment(r) \in DOMAIN devs
         THEN <<build_device_details_view(last_segment(r), devs, log)>>
    ELSE <<>>

\* the views route_change appends for a route
views_for_route(r, devs, log) ==
    IF r = <<"/">> THEN <<build_overview_view(devs)>>
    ELSE IF r = <<"/", "statistics">> THEN <<build_statistics_view>>
    ELSE IF starts_with_device(r)
         THEN IF last_segment(r) \in DOMAIN devs
              THEN <<build_device_details_view(last_segment(r), devs, log)>>
              ELSE <<build_overview_view(devs)>>
    ELSE <<>>

\* route_change without page.views.clear()
views_pushed(old_views, r, devs, log) == old_views \o views_for_route(r, devs, log)

\* page.views.clear() followed by the append
views_after_route_change(old_views, r, devs, log) == views_for_route(r, devs, log)

device_route(id) == <<"/", "device", "/", id>>

\* the routes a navigation request can carry
Routes ==
    {<<"/">>, <<"/", "statistics">>}
    \cup {device_route(id) : id \in DeviceIds}
    \cup {device_route("nosuch"), <<"/", "device", "/">>,
          <<"/", "device", "/", "attic", "/", "light1">>, <<"/", "settings">>}

\* ---------------------------------------------------------------- handlers
Event(op, arg) == [op |-> op, arg |-> arg]

\* the handlers of the overview's controls can run only while it is shown
OverviewShown == views # <<>> /\ views[Len(views)].kind = "Overview"

log_action(device_id, action, t) ==
    /\ action_log' = keep_last_rows(Append(action_log, Entry(strftime(t), device_id, action, "User")))
    /\ log_table_rows' = table_rows(action_log')
    /\ appended' = Append(appended, Entry(strftime(t), device_id, action, "User"))
    /\ clock' = t

update_power_text == power_text' = power_text_value(devices')

toggle_light ==
    /\ OverviewShown
    /\ nops < MaxOps
    /\ devices' = light_toggled(devices)
    /\ views' = [views EXCEPT ![Len(views)].texts =
                    [@ EXCEPT ![1] = light_status_text(devices'),
                              ![2] = light_button_text(devices')]]
    /\ \E t \in {x \in Seconds : x >= clock} : log_action("light1", light_action(devices'), t)
    /\ update_power_text
    /\ raised' = ""
    /\ nops' = nops + 1
    /\ last_event' = Event("toggle_light", <<>>)
    /\ UNCHANGED route

toggle_door ==
    /\ OverviewShown
    /\ nops < MaxOps
    /\ devices' = door_toggled(devices)
    /\ views' = [views EXCEPT ![Len(views)].texts =
                    [@ EXCEPT ![3] = door_status_text(devices'),
                              ![4] = door_button_text(devices')]]
    /\ \E t \in {x \in Seconds : x >= clock} : log_action("door1", door_action(devices'), t)
    /\ update_power_text
    /\ raised' = ""
    /\ nops' = nops + 1
    /\ last_event' = Event("toggle_door", <<>>)
    /\ UNCHANGED route

thermo_changed(value) ==
    /\ OverviewShown
    /\ nops < MaxOps
    /\ devices' = thermo_set(devices, value)
    /\ views' = [views EXCEPT ![Len(views)].texts =
                    [@ EXCEPT ![5] = thermo_value_text(devices')]]
    /\ \E t \in {x \in Seconds : x >= clock} : log_action("thermo1", thermo_action(devices'), t)
    /\ update_power_text
    /\ raised' = ""
    /\ nops' = nops + 1
    /\ last_event' = Event("thermo_changed", <<value>>)
    /\ UNCHANGED route

fan_changed(value) ==
    /\ OverviewShown
    /\ nops < MaxOps
    /\ devices' = fan_set(devices, value)
    /\ views' = [views EXCEPT ![Len(views)].texts =
                    [@ EXCEPT ![6] = fan_value_text(devices')]]
    /\ \E t \in {x \in Seconds : x >= clock} : log_action("fan1", fan_action(devices'), t)
    /\ update_power_text
    /\ raised' = ""
    /\ nops' = nops + 1
    /\ last_event' = Event("fan_changed", <<value>>)
    /\ UNCHANGED route

\* page.go(r) sets page.route and runs route_change
route_change(r) ==
    /\ route' = r
    /\ views' = views_after_route_change(views, r, devices, action_log)
    /\ power_text' = IF r = <<"/", "statistics">>
                     THEN power_text_value(devices)
                     ELSE power_text
    /\ raised' = ""
    /\ last_event' = Event("route_change", r)
    /\ UNCHANGED <<devices, action_log, log_table_rows, clock, appended, nops>>

\* page.views.pop() raises IndexError on an empty list
view_pop ==
    /\ IF views = <<>>
       THEN /\ raised' = "IndexError"
            /\ UNCHANGED views
       ELSE /\ raised' = ""
            /\ views' = SubSeq(views, 1, Len(views) - 1)
    /\ last_event' = Event("view_pop", <<>>)
    /\ UNCHANGED <<devices, action_log, log_table_rows, power_text, route,
                   clock, appended, nops>>

\* ------------------------------------------------------------ specification
\* main(): the seeded registry, the empty log, then page.go("/")
Init ==
    /\ devices = SeedDevices
    /\ action_log = <<>>
    /\ log_table_rows = <<>>
    /\ power_text = ""
    /\ route = <<"/">>
    /\ views = views_after_route_change(<<>>, <<"/">>, SeedDevices, <<>>)
    /\ clock = 0
    /\ raised = ""
    /\ appended = <<>>
    /\ nops = 0
    /\ last_event = Event("main", <<>>)

Next ==
    \/ toggle_light
    \/ toggle_door
    \/ \E value \in ThermoInputs : thermo_changed(value)
    \/ \E value \in FanInputs : fan_changed(value)
    \/ \E r \in Routes : route_change(r)
    \/ view_pop

Spec == Init /\ [][Next]_vars

\* SpecWarm starts after main() and Prefill handler runs on the overview,
\* all within the first clock second: run n is toggle_light, toggle_door,
\* thermo_changed, fan_changed for n % 4 = 1, 2, 3, 0.
ReplayThermo(n) == IF (n \div 4) % 2 = 0 THEN ThermoMax ELSE ThermoMin
ReplayFan(n) == (n \div 4) % (FanMax + 1)

\* the registry after runs 1..n: the toggles applied an odd or even number
\* of times, the sliders as their latest run left them
DevicesAfter(n) ==
    LET d1 == IF ((n + 3) \div 4) % 2 = 1 THEN light_toggled(SeedDevices) ELSE SeedDevices
        d2 == IF ((n + 2) \div 4) % 2 = 1 THEN door_toggled(d1) ELSE d1
        d3 == IF n >= 3 THEN thermo_set(d2, ReplayThermo(n - ((n + 1) % 4))) ELSE d2
        d4 == IF n >= 4 THEN fan_set(d3, ReplayFan(n - (n % 4))) ELSE d3
    IN d4

\* the entry run n appends
ReplayEntry(n) ==
    LET k == n % 4
        devs == DevicesAfter(n)
    IN Entry(strftime(0),
             CASE k = 1 -> "light1" [] k = 2 -> "door1"
               [] k = 3 -> "thermo1" [] OTHER -> "fan1",
             CASE k = 1 -> light_action(devs) [] k = 2 -> door_action(devs)
               [] k = 3 -> thermo_action(devs) [] OTHER -> fan_action(devs),
             "User")

Replay(n) ==
    [devices |-> DevicesAfter(n),
     action_log |-> keep_last_rows([i \in 1..n |-> ReplayEntry(i)])]

InitWarm ==
    /\ devices = Replay(Prefill).devices
    /\ action_log = Replay(Prefill).action_log
    /\ log_table_rows = table_rows(action_log)
    /\ power_text = power_text_value(devices)
    /\ route = <<"/">>
    /\ views = <<build_overview_view(devices)>>
    /\ clock = 0
    /\ raised = ""
    /\ appended = action_log
    /\ nops = 0
    /\ last_event = Event("main", <<>>)

SpecWarm == InitWarm /\ [][Next]_vars

\* ================================================================== claims
Min(a, b) == IF a < b THEN a ELSE b
Max(a, b) == IF a > b THEN a ELSE b
LastN(s, n) == SubSeq(s, Len(s) - n + 1, Len(s))
LoggedOps == {"toggle_light", "toggle_door", "thermo_changed", "fan_changed"}
OfDevice(log, id) == SelectSeq(log, LAMBDA a : a.device = id)
setpoint == devices["thermo1"].slider_value[1].v
speed == devices["fan1"].slider_value[1].v
watts == current_power_watts(devices).v

\* C1: the action log never holds more than 50 entries and always equals
\* the most recent min(n, 50) of the n entries appended so far, in
\* insertion order; the 51st append drops exactly the oldest entry.
C1_LogIsLast50Appended ==
    /\ Len(action_log) <= 50
    /\ Len(action_log) = Min(Len(appended), 50)
    /\ action_log = LastN(appended, Min(Len(appended), 50))

C1_Witness ==
    /\ nops > 0
    /\ Len(appended) >= 51
    /\ Len(action_log) = 50
    /\ action_log[1] = appended[Len(appended) - 49]
    /\ action_log[50] = appended[Len(appended)]

\* C2: the power estimate is 10 W for a lit light, nothing for the door,
\* 80 + max(0, setpoint - 20) * 5 for the thermostat and speed * 30 for the
\* fan; 90 W when seeded, 100 W with the light on, 190 W with the fan at 3
\* as well, 130 W at setpoint 30 with light off and fan 0; a door toggle
\* leaves it unchanged.
C2_PowerEstimate ==
    /\ [](/\ watts = (IF devices["light1"].is_on THEN 10 ELSE 0) + 0
                       + (80 + Max(0, setpoint - 20) * 5) + speed * 30
          /\ (last_event.op = "main" /\ nops = 0 /\ appended = <<>> => watts = 90)
          /\ (devices["light1"].is_on /\ setpoint = 22 /\ speed = 0 => watts = 100)
          /\ (devices["light1"].is_on /\ setpoint = 22 /\ speed = 3 => watts = 190)
          /\ (~devices["light1"].is_on /\ setpoint = 30 /\ speed = 0 => watts = 130))
    /\ [][last_event'.op = "toggle_door"
            => current_power_watts(devices').v = current_power_watts(devices).v]_vars

C2_Witness ==
    /\ last_event.op = "fan_changed"
    /\ devices["light1"].is_on
    /\ setpoint = 22
    /\ speed = 3
    /\ watts = 190

\* C3: for every device of the registry the recent-actions list of its
\* detail view has at most 10 entries, all of that device, and is exactly
\* the latest (up to 10) log entries of the device, newest first.
C3_RecentActions ==
    \A id \in DOMAIN devices :
        LET r == recent(id, action_log)
            mine == OfDevice(action_log, id)
        IN /\ Len(r) <= 10
           /\ Len(r) = Min(Len(mine), 10)
           /\ \A i \in 1..Len(r) :
                 /\ r[i].device = id
                 /\ r[i] = mine[Len(mine) + 1 - i]
           /\ (views # <<>> /\ views[Len(views)].kind = "DeviceDetail"
                 /\ views[Len(views)].device_id = id /\ Len(mine) > 0
               => /\ Len(views[Len(views)].texts) = 1 + Len(r)
                  /\ \A i \in 1..Len(r) :
                        views[Len(views)].texts[1 + i] =
                            r[i].time \o " - " \o r[i].action \o " (User)")

C3_Witness ==
    /\ nops > 0
    /\ views # <<>>
    /\ views[Len(views)].kind = "DeviceDetail"
    /\ views[Len(views)].device_id = "door1"
    /\ Len(OfDevice(action_log, "door1")) > 10
    /\ action_log[Len(action_log)].device = "door1"
    /\ Len(views[Len(views)].texts) = 11

\* C4: a navigation to /device/{id} shows the DeviceDetail view of id when
\* id is a registry key and the Overview otherwise, raises nothing, and
\* changes neither the action log nor any device record.
C4_DeviceNavigation ==
    /\ [](last_event.op = "route_change"
            /\ Len(last_event.arg) \in {3, 4}
            /\ SubSeq(last_event.arg, 1, 3) = <<"/", "device", "/">>
          => LET id == IF Len(last_event.arg) = 3 THEN "" ELSE last_event.arg[4]
             IN /\ raised = ""
                /\ Len(views) = 1
                /\ IF id \in {"light1", "door1", "thermo1", "fan1"}
                   THEN views[1].kind = "DeviceDetail" /\ views[1].device_id = id
                   ELSE views[1].kind = "Overview" /\ views[1].device_id = "")
    /\ [][last_event'.op = "route_change"
            => /\ devices' = devices
               /\ action_log' = action_log
               /\ appended' = appended
               /\ log_table_rows' = log_table_rows]_vars

C4_Witness ==
    /\ last_event = Event("route_change", <<"/", "device", "/", "nosuch">>)
    /\ nops > 0
    /\ Len(views) = 1
    /\ views[1].kind = "Overview"
    /\ raised = ""

\* C5: each of toggle_light, toggle_door, thermo_changed and fan_changed
\* appends exactly one entry, for its own device and describing the new
\* state; earlier entries keep their content and order and leave the log
\* only from the oldest end, when the log is full; no other step touches
\* the log.
C5_OneEntryPerChange ==
    [][LET op == last_event'.op
       IN IF op \in LoggedOps
          THEN /\ Len(appended') = Len(appended) + 1
               /\ LET e == appended'[Len(appended')]
                  IN /\ appended' = Append(appended, e)
                     /\ e.user = "User"
                     /\ e.device = (CASE op = "toggle_light" -> "light1"
                                      [] op = "toggle_door" -> "door1"
                                      [] op = "thermo_changed" -> "thermo1"
                                      [] OTHER -> "fan1")
                     /\ e.action =
                          (CASE op = "toggle_light" ->
                                  IF devices'["light1"].is_on THEN "Turn ON" ELSE "Turn OFF"
                             [] op = "toggle_door" ->
                                  IF devices'["door1"].is_on THEN "Lock" ELSE "Unlock"
                             [] op = "thermo_changed" ->
                                  "Set to " \o ToString(last_event'.arg[1]) \o ".0 degC"
                             [] OTHER ->
                                  "Set speed to " \o ToString(last_event'.arg[1]))
                     /\ (op = "toggle_light"
                           => devices'["light1"].is_on # devices["light1"].is_on)
                     /\ (op = "toggle_door"
                           => devices'["door1"].is_on # devices["door1"].is_on)
                     /\ (op = "thermo_changed"
                           => devices'["thermo1"].slider_value[1].v = last_event'.arg[1])
                     /\ (op = "fan_changed"
                           => devices'["fan1"].slider_value[1].v = last_event'.arg[1])
                     /\ action_log' = IF Len(action_log) = 50
                                      THEN Append(Tail(action_log), e)
                                      ELSE Append(action_log, e)
          ELSE action_log' = action_log /\ appended' = appended]_vars

C5_Witness ==
    /\ last_event.op = "toggle_light"
    /\ Len(appended) > 50
    /\ Len(action_log) = 50
    /\ action_log[50].device = "light1"
    /\ action_log[50].action = "Turn OFF"

\* C6: no sequence of navigation, pop, toggle and slider operations makes
\* a handler fail.
C6_NoHandlerFails == raised = ""

\* C7: the view stack always has a top view, and it is the Overview, the
\* Statistics or the DeviceDetail view of a registry id.
C7_RouterInOneState ==
    /\ Len(views) >= 1
    /\ \/ views[Len(views)].kind \in {"Overview", "Statistics"}
       \/ /\ views[Len(views)].kind = "DeviceDetail"
          /\ views[Len(views)].device_id \in {"light1", "door1", "thermo1", "fan1"}

\* C8: right after a navigation request for "/", "/statistics" or
\* "/device/{id}" the stack holds exactly one view, the Overview, the
\* Statistics or the DeviceDetail view of id, whatever it held before; a
\* pop removes the top view only.
C8_NavigationReplacesStack ==
    /\ [](last_event.op = "route_change"
          => LET r == last_event.arg
             IN /\ (r = <<"/">>
                      => Len(views) = 1 /\ views[1].kind = "Overview")
                /\ (r = <<"/", "statistics">>
                      => Len(views) = 1 /\ views[1].kind = "Statistics")
                /\ \A id \in {"light1", "door1", "thermo1", "fan1"} :
                      r = <<"/", "device", "/", id>>
                      => /\ Len(views) = 1
                         /\ views[1].kind = "DeviceDetail"
                         /\ views[1].device_id = id)
    /\ [][last_event'.op = "view_pop" /\ views # <<>>
            => /\ Len(views') = Len(views) - 1
               /\ \A i \in 1..Len(views') : views'[i] = views[i]]_vars

C8_Witness ==
    /\ last_event = Event("route_change", <<"/", "statistics">>)
    /\ nops > 0
    /\ Len(views) = 1
    /\ views[1].kind = "Statistics"

\* C9: each handler changes only the active field of its own device; the
\* registry keeps its four ids with their id, name and type, light and door
\* have no slider value, thermostat and fan keep their on/off flag;
\* navigation and pop change no device record and no log entry.
C9_FrameEffects ==
    /\ [](/\ DOMAIN devices = {"light1", "door1", "thermo1", "fan1"}
          /\ \A i \in DOMAIN devices :
                /\ devices[i].id = i
                /\ devices[i].name = SeedDevices[i].name
                /\ devices[i].type = SeedDevices[i].type
          /\ devices["light1"].slider_value = None
          /\ devices["door1"].slider_value = None
          /\ devices["thermo1"].is_on = FALSE
          /\ devices["fan1"].is_on = FALSE)
    /\ [][LET op == last_event'.op
              Others(id) == \A i \in DOMAIN devices : i # id => devices'[i] = devices[i]
          IN /\ DOMAIN devices' = DOMAIN devices
             /\ (op = "toggle_light"
                   => /\ Others("light1")
                      /\ devices'["light1"] =
                           [devices["light1"] EXCEPT !.is_on = ~devices["light1"].is_on])
             /\ (op = "toggle_door"
                   => /\ Others("door1")
                      /\ devices'["door1"] =
                           [devices["door1"] EXCEPT !.is_on = ~devices["door1"].is_on])
             /\ (op = "thermo_changed"
                   => /\ Others("thermo1")
                      /\ devices'["thermo1"].slider_value[1].v = last_event'.arg[1]
                      /\ devices'["thermo1"] =
                           [devices["thermo1"] EXCEPT
                              !.slider_value = devices'["thermo1"].slider_value])
             /\ (op = "fan_changed"
                   => /\ Others("fan1")
                      /\ devices'["fan1"].slider_value[1].v = last_event'.arg[1]
                      /\ devices'["fan1"] =
                           [devices["fan1"] EXCEPT
                              !.slider_value = devices'["fan1"].slider_value])
             /\ (op \in {"route_change", "view_pop"}
                   => devices' = devices /\ action_log' = action_log)]_vars

C9_Witness ==
    /\ last_event = Event("thermo_changed", <<30>>)
    /\ setpoint = 30
    /\ ~devices["thermo1"].is_on
    /\ nops > 0

\* C10: the rows of the log table are the entries of the action log in
\* reverse storage order, one row per stored entry, so never more than 50
\* rows and no evicted entry; the stored log stays in insertion order.
C10_TableIsReversedLog ==
    /\ Len(log_table_rows) = Len(action_log)
    /\ Len(log_table_rows) <= 50
    /\ \A i \in 1..Len(action_log) :
          LET e == action_log[Len(action_log) + 1 - i]
          IN log_table_rows[i] = <<e.time, e.device, e.action, e.user>>
    /\ \A i \in 1..Len(action_log) :
          action_log[i] = appended[Len(appended) - Len(action_log) + i]

C10_Witness ==
    /\ nops > 1
    /\ Len(appended) > 50
    /\ Len(log_table_rows) = 50
    /\ log_table_rows[1][2] # log_table_rows[50][2]
    /\ log_table_rows[1][2] = appended[Len(appended)].device

====
